---- MODULE Spec2Model ----
(***************************************************************************)
(* A model of the WebSocket fan-out relay of src/src/main.rs: the shared   *)
(* WebSocketServer state (users, next_id, each behind its own tokio        *)
(* Mutex), the per-connection on_upgrade task with its outbound loop, the  *)
(* spawned inbound loop, broadcast, send_to and handle_webhook.            *)
(***************************************************************************)
EXTENDS Integers, Sequences, FiniteSets, TLC

\* ------------------------------------------------------------- bounds
\* Number of connection-upgrade events (one on_upgrade task each).
MaxConn == 2
\* Number of concurrent HTTP handler tasks.
MaxHooks == 1
\* Total number of broadcast / send_to calls started in one behaviour.
MaxCalls == 2

Conn == 1..MaxConn
Hook == (MaxConn + 1)..(MaxConn + MaxHooks)
\* A caller of broadcast / send_to: the inbound task of connection c is
\* named c, an HTTP handler task is named by its Hook number.
Task == Conn \cup Hook

\* ------------------------------------------------------------ payloads
\* Text frames a client may send (sequences of characters).
Texts == { <<"h", "i">>, <<"\"">> }
\* JSON bodies the webhook may receive (serde_json::Value).
Bodies == { [t |-> "Object", k |-> <<"x">>, v |-> [t |-> "Number", n |-> 1]] }

StrValue(s) == [t |-> "String", s |-> s]

Digit(n) == CASE n = 0 -> "0" [] n = 1 -> "1" [] n = 2 -> "2" [] n = 3 -> "3"
              [] n = 4 -> "4" [] n = 5 -> "5" [] n = 6 -> "6" [] n = 7 -> "7"
              [] n = 8 -> "8" [] OTHER -> "9"

\* serde_json's string escaping: the quote and the backslash are escaped.
EscapeChar(ch) == IF ch = "\"" THEN <<"\\", "\"">>
                  ELSE IF ch = "\\" THEN <<"\\", "\\">>
                  ELSE <<ch>>

RECURSIVE Escape(_)
Escape(s) == IF s = <<>> THEN <<>> ELSE EscapeChar(Head(s)) \o Escape(Tail(s))

Quote(s) == <<"\"">> \o Escape(s) \o <<"\"">>

ScalarJson(v) == CASE v.t = "Number" -> <<Digit(v.n)>>
                   [] v.t = "String" -> Quote(v.s)
                   [] OTHER -> <<"n", "u", "l", "l">>

\* serde_json::to_string(&message)
ToJsonString(v) == IF v.t = "Object"
                   THEN <<"{">> \o Quote(v.k) \o <<":">> \o ScalarJson(v.v) \o <<"}">>
                   ELSE ScalarJson(v)

\* tungstenite Message::Text(json); `origin` is history: the payload it was
\* serialized from.
MessageText(js, from) == [type |-> "Text", data |-> js, origin |-> from]
\* Display for Message (msg.to_string()): the text of a Text message.
MsgToString(m) == IF m.type = "Text" THEN m.data
                  ELSE <<"B", "i", "n", "a", "r", "y">>

\* warp::ws::Message::text(msg.to_string()); `origin` is history.
WsFrame(m) == [frame |-> MsgToString(m), origin |-> m.origin]

NoPayload == [via |-> "none", value |-> [t |-> "Null"], call |-> 0]
NoMsg == [type |-> "None", data |-> <<>>, origin |-> NoPayload]

VARIABLES
    next_id,        \* the counter behind WebSocketServer.next_id
    next_id_lock,   \* holder of the next_id Mutex (0: free)
    users,          \* the HashMap behind WebSocketServer.users: id -> connection whose tx it holds
    users_lock,     \* holder of the users Mutex (0: free)
    id,             \* per connection: the local `id` of its on_upgrade task (0: none yet)
    up,             \* per connection: position of the on_upgrade task / outbound loop
    tk,             \* per task: position of the inbound loop or HTTP handler
    rx,             \* per connection: messages buffered in its unbounded channel
    held,           \* per connection: the message the outbound loop has received and is writing
    ws_out,         \* per connection: frames written to the transport (ws_sender)
    json,           \* per task: the serialized payload of the call in progress
    todo,           \* per task: keys of users the broadcast loop has still to visit
    target,         \* per task: user_id of the send_to in progress
    ret,            \* per task: result of the last broadcast / send_to
    http,           \* per HTTP handler: status of the last reply (0: none)
    sent,           \* history: per connection, every message successfully enqueued
    cnt,            \* history: per task and connection, copies enqueued by the call in progress
    snap,           \* history: per task, the registry as it was when the call took the lock
    origin,         \* history: per task, the payload the call in progress was given, by whom,
                    \*          and the number of the call (1 for the first call started)
    ncalls          \* history: number of calls started

vars == <<next_id, next_id_lock, users, users_lock, id, up, tk, rx, held, ws_out,
          json, todo, target, ret, http, sent, cnt, snap, origin, ncalls>>

NoUsers == [k \in {} |-> 0]

Init ==
    /\ next_id = 0
    /\ next_id_lock = 0
    /\ users = NoUsers
    /\ users_lock = 0
    /\ id = [c \in Conn |-> 0]
    /\ up = [c \in Conn |-> "connecting"]
    /\ tk = [t \in Task |-> IF t \in Conn THEN "none" ELSE "idle"]
    /\ rx = [c \in Conn |-> <<>>]
    /\ held = [c \in Conn |-> NoMsg]
    /\ ws_out = [c \in Conn |-> <<>>]
    /\ json = [t \in Task |-> <<>>]
    /\ todo = [t \in Task |-> {}]
    /\ target = [t \in Task |-> 0]
    /\ ret = [t \in Task |-> "none"]
    /\ http = [h \in Hook |-> 0]
    /\ sent = [c \in Conn |-> <<>>]
    /\ cnt = [t \in Task |-> [c \in Conn |-> 0]]
    /\ snap = [t \in Task |-> NoUsers]
    /\ origin = [t \in Task |-> NoPayload]
    /\ ncalls = 0

\* ------------------------------------------------- shared-state helpers
\* (variant: the counter is read and written without mutual exclusion)
NextIdLockIgnored == TRUE

\* next_id.lock().await resolves only while no task holds the guard.
NextIdLockFree == next_id_lock = 0

\* (variant: the increment is missing)
NoIncrement(n) == n

\* *next_id += 1
Increment(n) == n + 1

\* users.lock().await resolves only while no task holds the guard.
UsersLockFree == users_lock = 0

\* HashMap::insert(id, User { id, tx }): adds the entry, replacing one of the same key.
Insert(m, k, c) == [x \in DOMAIN m \cup {k} |-> IF x = k THEN c ELSE m[x]]

\* (variant: removing an absent id is not a no-op: it resets the map)
RemoveOrReset(m, k) == IF k \in DOMAIN m THEN [x \in DOMAIN m \ {k} |-> m[x]]
                       ELSE NoUsers

\* (variant: the teardown clears the whole map)
RemoveAll(m, k) == [x \in {} |-> 0]

\* (variant: the teardown leaves the entry in the map)
RemoveNothing(m, k) == m

\* HashMap::remove(&id): removes the entry if present, nothing otherwise.
Remove(m, k) == [x \in DOMAIN m \ {k} |-> m[x]]

\* The receiver half `rx` of connection c lives from its creation in the
\* on_upgrade task until that task returns.
RxOpen(c) == up[c] \in {"recv", "write"}

\* (variant: a clone of tx outlives the entry, so the channel never closes)
TxAliveLeaked(c) == TRUE

\* A sender of c's channel exists while an entry of users holds its tx.
TxAlive(c) == \E k \in DOMAIN users : users[k] = c

\* (variant: a failed write tears down every connection's channel)
DropAllRx(qs, c) == [d \in DOMAIN qs |-> <<>>]

\* The on_upgrade task of c returns: its rx is dropped with what it buffers.
DropRx(qs, c) == [qs EXCEPT ![c] = <<>>]

\* (variant: a bounded channel of capacity 1, whose send waits for room)
CanSendBounded(q) == Len(q) < 1

\* UnboundedSender::send never waits for room in the channel.
CanSend(q) == TRUE

\* UnboundedSender::send(msg): appends unless the receiver is gone (Err).
TxSend(q, open, m) == IF open THEN Append(q, m) ELSE q

\* (variant: the newest buffered message is taken first)
RecvNewest(q) == q[Len(q)]

\* rx.recv(): the oldest buffered message, and what stays buffered.
RecvMsg(q) == Head(q)
RecvRest(q) == Tail(q)

\* `for user in users.values()`: every entry of the map, the caller's included.
Recipients(m, t) == DOMAIN m

\* (variant: a failed send ends the loop, as `?` on the send would)
SendFailedAborts(td, k) == {}

\* A failed send is logged (warn!) and the loop goes on with the next user.
SendFailed(td, k) == td \ {k}

\* (variant: the guard is dropped once the entries are collected)
FanoutUnlocked(t) == 0

\* The guard `users` of broadcast lives until the function returns.
FanoutLock(t) == t

\* users.get(&user_id): the one entry of that key, if any.
SendToTargets(m, k) == IF k \in DOMAIN m THEN {k} ELSE {}

\* (variant: a failed send makes the whole broadcast fail)
BroadcastFailsOnSendError(failed) == IF failed = {} THEN "Ok" ELSE "Err"

\* Ok(()) at the end of broadcast, whatever the sends returned; `failed` is the
\* set of entries whose send failed.
BroadcastResult(failed) == "Ok"

\* handle_webhook: Ok -> 200 OK, Err -> 500 Internal Server Error.
StatusOf(r) == IF r = "Ok" THEN 200 ELSE 500

NoCnt == [c \in Conn |-> 0]

\* ------------------------------------------------ on_upgrade: id and register
\* let mut next_id = ws_server.next_id.lock().await; *next_id += 1;
LockNextId(c) ==
    /\ up[c] = "connecting"
    /\ NextIdLockFree
    /\ next_id_lock' = c
    /\ next_id' = Increment(next_id)
    /\ up' = [up EXCEPT ![c] = "id_locked"]
    /\ UNCHANGED <<users, users_lock, id, tk, rx, held, ws_out, json, todo, target,
                   ret, http, sent, cnt, snap, origin, ncalls>>

\* *next_id  }  -- the block's value becomes `id`, the guard is dropped.
ReadNextId(c) ==
    /\ up[c] = "id_locked"
    /\ id' = [id EXCEPT ![c] = next_id]
    /\ next_id_lock' = 0
    /\ up' = [up EXCEPT ![c] = "allocated"]
    /\ UNCHANGED <<next_id, users, users_lock, tk, rx, held, ws_out, json, todo,
                   target, ret, http, sent, cnt, snap, origin, ncalls>>

\* unbounded_channel(); users.lock().await.insert(id, User { id, tx });
\* socket.split(); tokio::spawn(inbound loop); then the outbound loop starts.
Register(c) ==
    /\ up[c] = "allocated"
    /\ UsersLockFree
    /\ users' = Insert(users, id[c], c)
    /\ up' = [up EXCEPT ![c] = "recv"]
    /\ tk' = [tk EXCEPT ![c] = "reading"]
    /\ UNCHANGED <<next_id, next_id_lock, users_lock, id, rx, held, ws_out, json,
                   todo, target, ret, http, sent, cnt, snap, origin, ncalls>>

\* ------------------------------------------------------- outbound loop
\* while let Some(msg) = rx.recv().await
Recv(c) ==
    /\ up[c] = "recv"
    /\ rx[c] # <<>>
    /\ held' = [held EXCEPT ![c] = RecvMsg(rx[c])]
    /\ rx' = [rx EXCEPT ![c] = RecvRest(rx[c])]
    /\ up' = [up EXCEPT ![c] = "write"]
    /\ UNCHANGED <<next_id, next_id_lock, users, users_lock, id, tk, ws_out, json,
                   todo, target, ret, http, sent, cnt, snap, origin, ncalls>>

\* rx.recv() returns None: the channel is empty and every sender is dropped.
RecvNone(c) ==
    /\ up[c] = "recv"
    /\ rx[c] = <<>>
    /\ ~TxAlive(c)
    /\ up' = [up EXCEPT ![c] = "exited"]
    /\ UNCHANGED <<next_id, next_id_lock, users, users_lock, id, tk, rx, held, ws_out,
                   json, todo, target, ret, http, sent, cnt, snap, origin, ncalls>>

\* ws_sender.send(Message::text(msg.to_string())).await is Ok
WriteOk(c) ==
    /\ up[c] = "write"
    /\ ws_out' = [ws_out EXCEPT ![c] = Append(@, WsFrame(held[c]))]
    /\ held' = [held EXCEPT ![c] = NoMsg]
    /\ up' = [up EXCEPT ![c] = "recv"]
    /\ UNCHANGED <<next_id, next_id_lock, users, users_lock, id, tk, rx, json, todo,
                   target, ret, http, sent, cnt, snap, origin, ncalls>>

\* ws_sender.send(..).await.is_err(): break; the task returns and drops rx
\* with whatever is still buffered in it.
WriteErr(c) ==
    /\ up[c] = "write"
    /\ held' = [held EXCEPT ![c] = NoMsg]
    /\ rx' = DropRx(rx, c)
    /\ up' = [up EXCEPT ![c] = "exited"]
    /\ UNCHANGED <<next_id, next_id_lock, users, users_lock, id, tk, ws_out, json,
                   todo, target, ret, http, sent, cnt, snap, origin, ncalls>>

\* -------------------------------------------------------- inbound loop
\* Some(Ok(msg)) with msg.is_text(): broadcast(text) is called and serializes.
ReadText(c, text) ==
    /\ tk[c] = "reading"
    /\ ncalls < MaxCalls
    /\ origin' = [origin EXCEPT ![c] = [via |-> "ws", value |-> StrValue(text), call |-> ncalls + 1]]
    /\ json' = [json EXCEPT ![c] = ToJsonString(StrValue(text))]
    /\ tk' = [tk EXCEPT ![c] = "b_lock"]
    /\ ret' = [ret EXCEPT ![c] = "none"]
    /\ ncalls' = ncalls + 1
    /\ UNCHANGED <<next_id, next_id_lock, users, users_lock, id, up, rx, held, ws_out,
                   todo, target, http, sent, cnt, snap>>

\* Some(Ok(msg)) that is not text (binary, ping, pong, close): ignored.
ReadNonText(c) ==
    /\ tk[c] = "reading"
    /\ UNCHANGED vars

\* ws_receiver.next() yields None or Some(Err(_)): the loop ends.
ReadEnd(c) ==
    /\ tk[c] = "reading"
    /\ tk' = [tk EXCEPT ![c] = "closing"]
    /\ UNCHANGED <<next_id, next_id_lock, users, users_lock, id, up, rx, held, ws_out,
                   json, todo, target, ret, http, sent, cnt, snap, origin, ncalls>>

\* ws_server.users.lock().await.remove(&id);
Unregister(c) ==
    /\ tk[c] = "closing"
    /\ UsersLockFree
    /\ users' = Remove(users, id[c])
    /\ tk' = [tk EXCEPT ![c] = "done"]
    /\ UNCHANGED <<next_id, next_id_lock, users_lock, id, up, rx, held, ws_out, json,
                   todo, target, ret, http, sent, cnt, snap, origin, ncalls>>

\* ----------------------------------------------------------- broadcast
\* let users = self.users.lock().await;  for user in users.values()
BroadcastLock(t) ==
    /\ tk[t] = "b_lock"
    /\ UsersLockFree
    /\ users_lock' = FanoutLock(t)
    /\ todo' = [todo EXCEPT ![t] = Recipients(users, t)]
    /\ snap' = [snap EXCEPT ![t] = users]
    /\ tk' = [tk EXCEPT ![t] = "b_fanout"]
    /\ UNCHANGED <<next_id, next_id_lock, users, id, up, rx, held, ws_out, json,
                   target, ret, http, sent, cnt, origin, ncalls>>

\* One turn of the loop: user.tx.send(Message::Text(json.clone())), for the
\* entry the map's iterator yields next (HashMap order is unspecified).
BroadcastSend(t, k) ==
    /\ tk[t] = "b_fanout"
    /\ k \in todo[t]
    /\ k \in DOMAIN users
    /\ LET c == users[k]
           m == MessageText(json[t], origin[t])
       IN /\ CanSend(rx[c])
          /\ rx' = [rx EXCEPT ![c] = TxSend(@, RxOpen(c), m)]
          /\ IF rx'[c] # rx[c]
             THEN /\ sent' = [sent EXCEPT ![c] = Append(@, m)]
                  /\ cnt' = [cnt EXCEPT ![t][c] = @ + 1]
                  /\ todo' = [todo EXCEPT ![t] = @ \ {k}]
             ELSE /\ todo' = [todo EXCEPT ![t] = SendFailed(@, k)]
                  /\ UNCHANGED <<sent, cnt>>
    /\ UNCHANGED <<next_id, next_id_lock, users, users_lock, id, up, tk, held, ws_out,
                   json, target, ret, http, snap, origin, ncalls>>

\* Ok(()): the guard is dropped; the inbound loop reads on, the webhook replies.
BroadcastDone(t) ==
    /\ tk[t] = "b_fanout"
    /\ todo[t] = {}
    /\ users_lock' = 0
    /\ ret' = [ret EXCEPT ![t] =
                 BroadcastResult({k \in DOMAIN users : cnt[t][users[k]] = 0})]
    /\ tk' = [tk EXCEPT ![t] = IF t \in Conn THEN "reading" ELSE "idle"]
    /\ http' = IF t \in Hook THEN [http EXCEPT ![t] = StatusOf(ret'[t])] ELSE http
    /\ json' = [json EXCEPT ![t] = <<>>]
    /\ origin' = [origin EXCEPT ![t] = NoPayload]
    /\ cnt' = [cnt EXCEPT ![t] = NoCnt]
    /\ snap' = [snap EXCEPT ![t] = NoUsers]
    /\ UNCHANGED <<next_id, next_id_lock, users, id, up, rx, held, ws_out, todo,
                   target, sent, ncalls>>

\* ------------------------------------------------------ handle_webhook
\* POST /webhook: ws_server.broadcast(body) is called and serializes.
Webhook(h, body) ==
    /\ tk[h] = "idle"
    /\ ncalls < MaxCalls
    /\ origin' = [origin EXCEPT ![h] = [via |-> "http", value |-> body, call |-> ncalls + 1]]
    /\ json' = [json EXCEPT ![h] = ToJsonString(body)]
    /\ tk' = [tk EXCEPT ![h] = "b_lock"]
    /\ ret' = [ret EXCEPT ![h] = "none"]
    /\ http' = [http EXCEPT ![h] = 0]
    /\ ncalls' = ncalls + 1
    /\ UNCHANGED <<next_id, next_id_lock, users, users_lock, id, up, rx, held, ws_out,
                   todo, target, sent, cnt, snap>>

\* ------------------------------------------------------------- send_to
\* send_to(user_id, message) is called and serializes.
SendToCall(h, k, body) ==
    /\ tk[h] = "idle"
    /\ ncalls < MaxCalls
    /\ origin' = [origin EXCEPT ![h] = [via |-> "http", value |-> body, call |-> ncalls + 1]]
    /\ json' = [json EXCEPT ![h] = ToJsonString(body)]
    /\ target' = [target EXCEPT ![h] = k]
    /\ tk' = [tk EXCEPT ![h] = "s_lock"]
    /\ ret' = [ret EXCEPT ![h] = "none"]
    /\ ncalls' = ncalls + 1
    /\ UNCHANGED <<next_id, next_id_lock, users, users_lock, id, up, rx, held, ws_out,
                   todo, http, sent, cnt, snap>>

\* let users = self.users.lock().await; if let Some(user) = users.get(&user_id)
\* { user.tx.send(Message::Text(json)) } else { warn! }
SendToRun(h) ==
    /\ tk[h] = "s_lock"
    /\ UsersLockFree
    /\ users_lock' = h
    /\ snap' = [snap EXCEPT ![h] = users]
    /\ LET ks == SendToTargets(users, target[h])
           m == MessageText(json[h], origin[h])
       IN /\ rx' = [c \in Conn |->
                      IF \E k \in ks : users[k] = c
                      THEN TxSend(rx[c], RxOpen(c), m) ELSE rx[c]]
          /\ sent' = [c \in Conn |-> IF rx'[c] # rx[c] THEN Append(sent[c], m) ELSE sent[c]]
          /\ cnt' = [cnt EXCEPT ![h] =
                       [c \in Conn |-> IF rx'[c] # rx[c] THEN 1 ELSE 0]]
    /\ tk' = [tk EXCEPT ![h] = "s_sent"]
    /\ UNCHANGED <<next_id, next_id_lock, users, id, up, held, ws_out, json,
                   todo, target, ret, http, origin, ncalls>>

\* Ok(()): the guard is dropped and send_to returns.
SendToDone(h) ==
    /\ tk[h] = "s_sent"
    /\ users_lock' = 0
    /\ ret' = [ret EXCEPT ![h] = "Ok"]
    /\ tk' = [tk EXCEPT ![h] = "idle"]
    /\ json' = [json EXCEPT ![h] = <<>>]
    /\ origin' = [origin EXCEPT ![h] = NoPayload]
    /\ target' = [target EXCEPT ![h] = 0]
    /\ cnt' = [cnt EXCEPT ![h] = NoCnt]
    /\ snap' = [snap EXCEPT ![h] = NoUsers]
    /\ UNCHANGED <<next_id, next_id_lock, users, id, up, rx, held, ws_out, todo,
                   http, sent, ncalls>>

\* ---------------------------------------------------------------- spec
Next ==
    \/ \E c \in Conn : LockNextId(c)
    \/ \E c \in Conn : ReadNextId(c)
    \/ \E c \in Conn : Register(c)
    \/ \E c \in Conn : Recv(c)
    \/ \E c \in Conn : RecvNone(c)
    \/ \E c \in Conn : WriteOk(c)
    \/ \E c \in Conn : WriteErr(c)
    \/ \E c \in Conn, text \in Texts : ReadText(c, text)
    \/ \E c \in Conn : ReadNonText(c)
    \/ \E c \in Conn : ReadEnd(c)
    \/ \E c \in Conn : Unregister(c)
    \/ \E t \in Task : BroadcastLock(t)
    \/ \E t \in Task, k \in 1..MaxConn : BroadcastSend(t, k)
    \/ \E t \in Task : BroadcastDone(t)
    \/ \E h \in Hook, body \in Bodies : Webhook(h, body)
    \/ \E h \in Hook, k \in 1..MaxConn, body \in Bodies : SendToCall(h, k, body)
    \/ \E h \in Hook : SendToRun(h)
    \/ \E h \in Hook : SendToDone(h)

Spec == Init /\ [][Next]_vars

\* Fairness for the broadcast loop only: it has no suspension point between
\* taking the guard and returning, so a task inside it keeps running; nothing
\* is assumed about the outbound loops, which may never take another step.
BroadcastStep(t) == (\E k \in 1..MaxConn : BroadcastSend(t, k)) \/ BroadcastDone(t)

StalledSpec == Init /\ [][Next]_vars /\ \A t \in Task : WF_vars(BroadcastStep(t))

\* Fairness for the outbound loops: the runtime keeps polling a task that can
\* go on (a message or the closure of the channel is there to receive), and
\* every transport write completes, with Ok or with an error.
OutboundStep(c) == Recv(c) \/ RecvNone(c) \/ WriteOk(c) \/ WriteErr(c)

DrainSpec == Init /\ [][Next]_vars /\ \A c \in Conn : WF_vars(OutboundStep(c))

\* ---------------------------------------------------------------- claims
Registered == DOMAIN users
FanoutOver(t) == tk[t] = "b_fanout" /\ todo[t] = {}
Last(q) == q[Len(q)]
Frames(ms) == [i \in 1..Len(ms) |-> WsFrame(ms[i])]
IsPrefix(p, q) == Len(p) <= Len(q) /\ \A i \in 1..Len(p) : p[i] = q[i]
InFlight(c) == (IF up[c] = "write" THEN <<held[c]>> ELSE <<>>) \o rx[c]

\* C1: when a broadcast has visited every entry of the registry, every
\* registered connection whose receiver is still open has had exactly one copy
\* of the serialized payload appended to its queue by that call, whether or
\* not other registered connections have a closed queue, and the call never
\* returns anything but Ok.
C1_BestEffort ==
    /\ \A t \in Task : FanoutOver(t) =>
         \A k \in Registered :
            RxOpen(users[k]) =>
               /\ cnt[t][users[k]] = 1
               /\ sent[users[k]] # <<>>
               /\ Last(sent[users[k]]) = MessageText(json[t], origin[t])
    /\ \A t \in Task : ret[t] \in {"none", "Ok"}

C1_Witness ==
    \E t \in Task : /\ FanoutOver(t)
                    /\ \E k1, k2 \in Registered :
                          /\ ~RxOpen(users[k1]) /\ cnt[t][users[k1]] = 0
                          /\ RxOpen(users[k2]) /\ cnt[t][users[k2]] = 1

\* C2: every id read from the counter is greater than every id any other
\* connection obtained before, whatever has become of that connection since
\* (so no two upgrades share an id and no id is issued twice).
C2_IdsStrictlyIncreasing ==
    [][\A c \in Conn :
         (up[c] = "id_locked" /\ up'[c] = "allocated") =>
            \A d \in Conn \ {c} :
               up[d] \notin {"connecting", "id_locked"} => id'[c] > id[d]]_vars

C2_Witness ==
    \E c, d \in Conn : /\ tk[c] = "done" /\ up[c] = "exited"
                       /\ up[d] = "allocated"
                       /\ id[d] > id[c]

\* C3: once all MaxConn upgrades have registered and no connection has
\* disconnected, the registry holds exactly MaxConn entries, keyed by the
\* MaxConn distinct ids of the connections.
AllRegistered == \A c \in Conn : up[c] \in {"recv", "write", "exited"}
NoDisconnect == \A c \in Conn : tk[c] \notin {"closing", "done"}

C3_NEntriesDistinctIds ==
    (AllRegistered /\ NoDisconnect) =>
        /\ Cardinality(Registered) = MaxConn
        /\ Registered = {id[c] : c \in Conn}
        /\ \A c \in Conn : users[id[c]] = c

C3_Witness ==
    AllRegistered /\ NoDisconnect /\ Cardinality(Registered) = MaxConn /\ MaxConn >= 2

\* C4: what the transport has observed of a connection is always a prefix of
\* what was enqueued on its queue, in enqueue order; while the outbound loop
\* runs, the frames written, the message being written and the queue make up
\* exactly the enqueued sequence (nothing reordered, duplicated or skipped).
C4_Fifo ==
    \A c \in Conn :
        /\ IsPrefix(ws_out[c], Frames(sent[c]))
        /\ up[c] # "exited" => ws_out[c] \o Frames(InFlight(c)) = Frames(sent[c])

C4_Witness ==
    \E c \in Conn : /\ Len(ws_out[c]) >= 2
                    /\ ws_out[c][1].frame # ws_out[c][2].frame
                    /\ ws_out[c] = Frames(sent[c])

\* C5: every id in the registry has a channel whose consumer (the outbound
\* loop of its connection) is still running.
C5_RegisteredHasConsumer ==
    \A k \in Registered : RxOpen(users[k])

C7_FanoutReturns ==
    \A t \in Task : (tk[t] = "b_fanout") ~> (tk[t] # "b_fanout")

C7_Witness ==
    \E h \in Hook :
        /\ tk[h] = "idle" /\ ret[h] = "Ok"
        /\ \E c \in Conn : up[c] = "recv" /\ Len(rx[c]) >= 2 /\ ws_out[c] = <<>>

\* C8: the frame written to a recipient's transport for a text frame a client
\* sent is exactly that text.
C8_TextVerbatim ==
    \A c \in Conn : \A i \in 1..Len(ws_out[c]) :
        ws_out[c][i].origin.via = "ws" =>
            ws_out[c][i].frame = ws_out[c][i].origin.value.s

\* C9: the broadcast of a text frame sent by a registered connection has
\* enqueued one copy on the queue of every registered connection, the
\* sender's included, when it has visited every entry.
C9_EchoToAll ==
    \A a \in Conn : FanoutOver(a) =>
        /\ a \in {users[k] : k \in Registered}
        /\ \A k \in Registered : cnt[a][users[k]] = 1

\* C10: send_to on an unregistered id enqueues nothing and leaves the registry
\* as it was; on a registered id it enqueues exactly one copy on that
\* connection's queue and none on any other.
C10_SendToSingle ==
    \A h \in Hook : tk[h] = "s_sent" =>
        /\ users = snap[h]
        /\ target[h] \notin Registered => \A c \in Conn : cnt[h][c] = 0
        /\ target[h] \in Registered =>
              \A c \in Conn : cnt[h][c] = IF c = users[target[h]] THEN 1 ELSE 0

\* C11: every reply of the webhook is 200, however many recipients are
\* registered and however many sends failed; 500 is sent only for a broadcast
\* that returned Err.
C11_WebhookStatus ==
    \A h \in Hook : /\ http[h] \in {0, 200, 500}
                    /\ http[h] = 500 => ret[h] = "Err"
                    /\ (http[h] # 0 /\ ret[h] = "Ok") => http[h] = 200
                    /\ http[h] # 500

\* A webhook was answered 200 although its broadcast reached nobody: the
\* only messages ever enqueued came from a client, and every entry of the
\* registry has a closed queue.
C11_Witness ==
    \E h \in Hook :
        /\ http[h] = 200 /\ tk[h] = "idle" /\ ncalls = 2
        /\ Registered # {}
        /\ \A k \in Registered : ~RxOpen(users[k])
        /\ \A c \in Conn : \A i \in 1..Len(sent[c]) : sent[c][i].origin.via = "ws"

InReg(c) == \E k \in Registered : users[k] = c
InRegNext(c) == \E k \in DOMAIN users' : users'[k] = c

\* C12: the entry of connection c leaves the registry only in the step in
\* which c's own inbound loop, having ended, removes it; once c's inbound task
\* is done its entry never comes back (so it is removed at most once).
C12_RemovedOnlyByOwnInbound ==
    [][\A c \in Conn :
         /\ (InReg(c) /\ ~InRegNext(c)) => (tk[c] = "closing" /\ tk'[c] = "done")
         /\ tk[c] = "done" => ~InRegNext(c)]_vars

\* c has been removed while d, registered, has had a broadcast delivered, its
\* outbound loop has exited on a failed write, and it is still registered.
C12_Witness ==
    \E c, d \in Conn :
        /\ tk[c] = "done" /\ ~InReg(c)
        /\ InReg(d) /\ up[d] = "exited" /\ sent[d] # <<>>

\* What belongs to the connections other than c: their registry entries, queues,
\* messages being written, frames written and the positions of their loops.
Others(c) == <<[k \in {x \in Registered : users[x] # c} |-> users[k]],
              [d \in Conn \ {c} |-> <<rx[d], held[d], ws_out[d], up[d], tk[d], id[d]>>]>>
OthersNext(c) == <<[k \in {x \in DOMAIN users' : users'[x] # c} |-> users'[k]],
                  [d \in Conn \ {c} |-> <<rx'[d], held'[d], ws_out'[d], up'[d], tk'[d], id'[d]>>]>>

WriteFails(c) == up[c] = "write" /\ up'[c] = "exited"
ReadFails(c) == tk[c] = "reading" /\ tk'[c] = "closing"
Teardown(c) == tk[c] = "closing" /\ tk'[c] = "done"

\* C13: a failed write on c, a failed read on c and the teardown that follows
\* it leave every other connection's registry entry, queue, frames and loops
\* as they were; the registry is unchanged by the failure itself and loses at
\* most c's own entry in the teardown.
C13_ErrorIsolation ==
    [][\A c \in Conn :
         /\ (WriteFails(c) \/ ReadFails(c) \/ Teardown(c)) => OthersNext(c) = Others(c)
         /\ (WriteFails(c) \/ ReadFails(c)) => users' = users
         /\ Teardown(c) => users' = [k \in Registered \ {id[c]} |-> users[k]]]_vars

\* c's write has failed and its inbound loop has ended and removed its entry,
\* while d is registered with a message queued and its loops running.
C13_Witness ==
    \E c, d \in Conn :
        /\ c # d
        /\ up[c] = "exited" /\ tk[c] = "done" /\ Len(sent[c]) > Len(ws_out[c])
        /\ InReg(d) /\ up[d] = "recv" /\ rx[d] # <<>> /\ tk[d] = "reading"

\* C14: for every registry the program reaches and every id, removing the id
\* twice gives the same registry as removing it once, removing an absent id
\* gives the registry back unchanged, and a removal leaves every other entry
\* as it was.
C14_UnregisterIdempotent ==
    \A k \in 0..(MaxConn + 1) :
        /\ Remove(Remove(users, k), k) = Remove(users, k)
        /\ k \notin Registered => Remove(users, k) = users
        /\ DOMAIN Remove(users, k) = Registered \ {k}
        /\ \A j \in Registered \ {k} : Remove(users, k)[j] = users[j]

\* The id of a connection that has been torn down is absent from a registry
\* that still holds another entry: a second removal of it would land here.
C14_Witness ==
    \E c \in Conn :
        /\ tk[c] = "done" /\ id[c] \notin Registered /\ Registered # {}
        /\ Remove(users, id[c]) = users

\* The lifecycle state of connection c, from the positions of its two tasks
\* and the registry (1 Connecting, 2 Active, 3 Draining, 4 Closed; 0 when it is
\* in none of the four).
InboundRuns(c) == tk[c] \in {"reading", "b_lock", "b_fanout"}
Phase(c) ==
    CASE up[c] \in {"connecting", "id_locked", "allocated"} -> 1
      [] InReg(c) /\ InboundRuns(c) /\ RxOpen(c) -> 2
      [] tk[c] = "closing" \/ (tk[c] = "done" /\ up[c] # "exited") -> 3
      [] tk[c] = "done" /\ up[c] = "exited" /\ ~InReg(c) -> 4
      [] OTHER -> 0
InboundRunsNext(c) == tk'[c] \in {"reading", "b_lock", "b_fanout"}
PhaseNext(c) ==
    CASE up'[c] \in {"connecting", "id_locked", "allocated"} -> 1
      [] InRegNext(c) /\ InboundRunsNext(c) /\ up'[c] \in {"recv", "write"} -> 2
      [] tk'[c] = "closing" \/ (tk'[c] = "done" /\ up'[c] # "exited") -> 3
      [] tk'[c] = "done" /\ up'[c] = "exited" /\ ~InRegNext(c) -> 4
      [] OTHER -> 0

\* C15: every connection is always in one of the four lifecycle states, moves
\* between them only forwards, and once its inbound task is done its entry
\* never re-enters the registry.
C15_Lifecycle ==
    [][\A c \in Conn :
         /\ Phase(c) # 0 /\ PhaseNext(c) # 0
         /\ PhaseNext(c) >= Phase(c)
         /\ tk[c] = "done" => ~InRegNext(c)]_vars

Registers(c) == up[c] = "allocated" /\ up'[c] = "recv"

\* C16: no registration inserts an id that is already in the registry: the
\* insert adds one entry and leaves every entry that was there as it was.
C16_NoDuplicateId ==
    [][\A c \in Conn :
         Registers(c) =>
            /\ id[c] \notin Registered
            /\ DOMAIN users' = Registered \cup {id[c]}
            /\ \A k \in Registered : users'[k] = users[k]]_vars

\* Two connections are registered, each under its own id, and a broadcast
\* has been delivered: the later registration went into a non-empty registry.
C16_Witness ==
    \E c, d \in Conn :
        /\ c # d /\ InReg(c) /\ InReg(d)
        /\ users[id[c]] = c /\ users[id[d]] = d
        /\ sent[c] # <<>>

\* C17: once c's inbound loop has ended and removed its entry, c's outbound
\* loop eventually exits; when it exits because the channel is closed and
\* empty, the entry was removed before and every message ever enqueued on c
\* has been written, in order; a failed write ends it in that very step.
C17_DrainingCompletes ==
    /\ \A c \in Conn : (tk[c] = "done") ~> (up[c] = "exited")
    /\ [][\A c \in Conn :
            /\ (up[c] = "recv" /\ up'[c] = "exited") =>
                  (tk[c] = "done" /\ ws_out[c] = Frames(sent[c]))
            /\ (up[c] = "write" /\ ws_out'[c] = ws_out[c]) => up'[c] \in {"write", "exited"}]_vars

\* c's entry is removed while its outbound loop is writing one message and
\* another is still queued.
C17_Witness ==
    \E c \in Conn : tk[c] = "done" /\ ~InReg(c) /\ up[c] = "write" /\ rx[c] # <<>>

\* ---------------------------------------------------------------- C18
CallOf(m) == m.origin.call
Positions(q, n) == { i \in 1..Len(q) : CallOf(q[i]) = n }
Fanning == { t \in Task : tk[t] = "b_fanout" }

\* C18: broadcasts are serialized by the users lock.  Whenever two connections
\* both hold the messages of two calls X and Y in their queues' histories, X
\* comes before Y in both or after Y in both, and no queue holds a call's
\* message twice.  While a broadcast is in its loop, the map is the one it
\* found when it took the lock, it is the only broadcast in its loop, it hands
\* its message only to entries of that map, and when the loop is over every
\* entry of that map has been offered the message once: each one with an open
\* receiver has exactly one copy.
C18_BroadcastsSerialized ==
    /\ \A c, d \in Conn : \A i, j \in 1..Len(sent[c]) :
          i < j => /\ CallOf(sent[c][i]) # CallOf(sent[c][j])
                   /\ \A p \in Positions(sent[d], CallOf(sent[c][i])) :
                      \A q \in Positions(sent[d], CallOf(sent[c][j])) : p < q
    /\ \A t \in Fanning :
          /\ Fanning = {t}
          /\ users_lock = t
          /\ users = snap[t]
          /\ todo[t] \subseteq DOMAIN snap[t]
          /\ \A c \in Conn : cnt[t][c] > 0 =>
                /\ cnt[t][c] = 1
                /\ \E k \in DOMAIN snap[t] \ todo[t] : snap[t][k] = c
          /\ \A k \in DOMAIN snap[t] \ todo[t] :
                RxOpen(snap[t][k]) => cnt[t][snap[t][k]] = 1

\* Two connections have each been handed the messages of the same two calls.
C18_Witness ==
    \E c, d \in Conn :
        /\ c # d
        /\ Len(sent[c]) = 2 /\ Len(sent[d]) = 2
        /\ CallOf(sent[c][1]) # CallOf(sent[c][2])
        /\ CallOf(sent[c][1]) = CallOf(sent[d][1])
        /\ CallOf(sent[c][2]) = CallOf(sent[d][2])
        /\ \E t \in Task : FanoutOver(t) /\ DOMAIN snap[t] = {1, 2}

\* ---------------------------------------------------------------- C19
Inserted(c) == tk[c] # "none"
Removed(c) == tk[c] = "done"

\* C19: a message is appended to the queue of connection c only in a step
\* taken while c's entry is in the registry, after its insertion and before
\* its removal: a connection not yet inserted has had no message at all, and
\* a call that took the lock while c was not yet inserted or already removed
\* has no entry of c in the map it works on and hands c nothing.
C19_EnqueueOnlyWhileRegistered ==
    /\ [][\A c \in Conn : sent'[c] # sent[c] =>
             /\ InReg(c) /\ users[id[c]] = c
             /\ Inserted(c) /\ ~Removed(c)]_vars
    /\ [](\A c \in Conn :
             /\ ~Inserted(c) => sent[c] = <<>> /\ rx[c] = <<>>
             /\ (~Inserted(c) \/ Removed(c)) =>
                   \A t \in Task : users_lock = t =>
                      /\ \A k \in DOMAIN snap[t] : snap[t][k] # c
                      /\ cnt[t][c] = 0)

\* A broadcast that took the lock after c's removal has handed its message to
\* the other connection and to nobody else.
C19_Witness ==
    \E c, d \in Conn : \E t \in Task :
        /\ c # d
        /\ Removed(c) /\ RxOpen(c)
        /\ FanoutOver(t) /\ cnt[t][d] = 1
        /\ Len(sent[d]) > Len(sent[c])

\* ---------------------------------------------------------------- C20
\* What a lock's holder does until it drops the guard: no await lies between
\* taking and dropping either lock (UnboundedSender::send is not async), so the
\* holder goes on whenever the runtime polls it.
HolderStep(t) == BroadcastStep(t) \/ SendToDone(t)

LockSpec ==
    /\ Init /\ [][Next]_vars
    /\ \A t \in Task : WF_vars(HolderStep(t))
    /\ \A c \in Conn : WF_vars(ReadNextId(c))

WaitsForUsers(t) ==
    \/ tk[t] \in {"b_lock", "s_lock", "closing"}
    \/ t \in Conn /\ up[t] = "allocated"
WaitsOnQueueOrTransport(c) == up[c] \in {"recv", "write"}

\* C20: the holder of the id-counter lock is a connection's upgrade task
\* between `*next_id += 1` and the read of the value, where it has neither
\* asked for the users lock nor started its loops; the holder of the users
\* lock is a task inside broadcast or send_to, which is not the task holding
\* the id-counter lock and can always take its next step, whatever the queues
\* hold; and both locks, once held, are released.
C20_NoDeadlock ==
    /\ [](\A c \in Conn : next_id_lock = c =>
             /\ up[c] = "id_locked" /\ tk[c] = "none"
             /\ users_lock # c
             /\ ~WaitsOnQueueOrTransport(c)
             /\ ENABLED ReadNextId(c))
    /\ [](\A t \in Task : users_lock = t =>
             /\ tk[t] \in {"b_fanout", "s_sent"}
             /\ next_id_lock # t
             /\ ENABLED HolderStep(t))
    /\ \A c \in Conn : (next_id_lock = c) ~> (next_id_lock = 0)
    /\ \A t \in Task : (users_lock = t) ~> (users_lock = 0)

\* One connection holds the id-counter lock while another one waits for the
\* users lock, which a third task holds.
C20_Witness ==
    \E c, d \in Conn : \E t \in Task :
        /\ next_id_lock = c
        /\ d # c /\ WaitsForUsers(d)
        /\ users_lock = t /\ t # d
====
